---- MODULE Spec2Model ----
(***************************************************************************)
(* Forecast orchestration and model lifecycle of app.py: get_forecast and  *)
(* the three tiers it sequences (forecast_lstm_autotrain,                  *)
(* forecast_lstm_inference, forecast_linear), the artifacts the trainer    *)
(* writes under DEFAULT_MODEL_DIR and the catalog scan that reads them.    *)
(* Spec is the orchestration; SpecStorage is one catalog scan of any       *)
(* storage root; SpecForecast is one call of a forecaster, or of the       *)
(* training script train_lstm.py, on any short series, with its numbers.   *)
(*                                                                         *)
(* Text is a sequence of tokens: a letter, a digit or a punctuation mark   *)
(* is one token, and a fixed piece of a file name or of a message          *)
(* ("lstm_", ".keras", "cached model failed:") is one token as well.       *)
(* Python's None is the empty sequence and a present value x is <<x>>.     *)
(***************************************************************************)
EXTENDS Naturals, Integers, Sequences, FiniteSets, TLC

\* ---------------------------------------------------------------- bounds

\* Number of /forecast requests in flight over one storage root, next to
\* one run of the pre-training script.
NumReq == 1
\* The LSTM window of a request (the code admits 5..120; scaled down).
Window == 2
\* Longest historical series, and longest horizon, of a forecasting call
\* taken by itself.
MaxSeriesLen == 4
MaxDays == 2

Reqs == 1..NumReq
\* Lengths of the historical series (rows with a Close): none, fewer than
\* the window, exactly the window, more than the window.
SeriesLengths == {0, Window - 1, Window, Window + 1}

\* ------------------------------------------------------------------ text

None == <<>>
Some(x) == <<x>>
IsNone(o) == o = <<>>
Get(o) == o[1]

\* str.upper() / str.lower(), token by token.
Upper(tok) ==
  CASE tok = "a" -> "A"
    [] tok = "b" -> "B"
    [] tok = "lstm_" -> "LSTM_"
    [] tok = "model_" -> "MODEL_"
    [] tok = "stock_" -> "STOCK_"
    [] OTHER -> tok

Lower(tok) ==
  CASE tok = "A" -> "a"
    [] tok = "B" -> "b"
    [] tok = "LSTM_" -> "lstm_"
    [] tok = "MODEL_" -> "model_"
    [] tok = "STOCK_" -> "stock_"
    [] OTHER -> tok

UpperStr(s) == [i \in 1..Len(s) |-> Upper(s[i])]
LowerStr(s) == [i \in 1..Len(s) |-> Lower(s[i])]

RECURSIVE LStrip(_, _)
LStrip(s, chars) ==
  IF s # <<>> /\ Head(s) \in chars THEN LStrip(Tail(s), chars) ELSE s

RECURSIVE RStrip(_, _)
RStrip(s, chars) ==
  IF s # <<>> /\ s[Len(s)] \in chars
    THEN RStrip(SubSeq(s, 1, Len(s) - 1), chars)
    ELSE s

\* str.strip(chars): drops leading and trailing characters of `chars`.
Strip(s, chars) == RStrip(LStrip(s, chars), chars)

Whitespace == {" "}

\* `sub in s` for strings.
Contains(s, sub) ==
  \E i \in 0..(Len(s) - Len(sub)) : SubSeq(s, i + 1, i + Len(sub)) = sub

\* ticker.strip().upper()
CleanTicker(ticker) == UpperStr(Strip(ticker, Whitespace))

\* ------------------------------------------------------- storage root

\* A file name is its stem's tokens followed by its extension token.
Stem(name) == SubSeq(name, 1, Len(name) - 1)
Ext(name) == name[Len(name)]

\* model_dir / f"lstm_{ticker_clean}.keras", model_dir / f"scaler_{ticker_clean}.save"
ModelPath(ticker_clean) == <<"lstm_">> \o ticker_clean \o <<".keras">>
ScalerPath(ticker_clean) == <<"scaler_">> \o ticker_clean \o <<".save">>

Exists(fs, name) == name \in DOMAIN fs

\* The file `name` now holds what training run `run` produced.
WriteFile(fs, name, run) ==
  [p \in (DOMAIN fs) \cup {name} |-> IF p = name THEN run ELSE fs[p]]

\* ------------------------------------------------------------- catalog

AlnumTokens == {"A", "B", "0", "1"}
StemPrefixes == <<"LSTM_", "MODEL_", "STOCK_">>

\* One pass of `if cleaned.startswith(prefix): cleaned = cleaned[len(prefix):]`.
StripPrefix(cleaned, prefix) ==
  IF cleaned # <<>> /\ Head(cleaned) = prefix THEN Tail(cleaned) ELSE cleaned

\* re.sub(r"[^A-Z0-9]", "", cleaned); a prefix token left inside the stem
\* keeps its letters and loses its underscore.
AlnumOnly(s) ==
  LET keep(tok) ==
        CASE tok \in AlnumTokens -> <<tok>>
          [] tok = "LSTM_" -> <<"LSTM">>
          [] tok = "MODEL_" -> <<"MODEL">>
          [] tok = "STOCK_" -> <<"STOCK">>
          [] OTHER -> <<>>
      F[i \in 0..Len(s)] == IF i = 0 THEN <<>> ELSE F[i - 1] \o keep(s[i])
  IN F[Len(s)]

\* Returns None (<<>>) when nothing is left of the stem.
_normalise_ticker_from_stem(stem) ==
  LET c0 == UpperStr(stem)
      c1 == StripPrefix(c0, StemPrefixes[1])
      c2 == StripPrefix(c1, StemPrefixes[2])
      c3 == StripPrefix(c2, StemPrefixes[3])
  IN AlnumOnly(c3)

\* The candidate scaler names, in the order the code tries them.
ScalerCandidates(ticker) ==
  LET tl == LowerStr(ticker)
  IN << ticker \o <<"_SCALER", ".pkl">>,
        ticker \o <<"_SCALER", ".save">>,
        ticker \o <<"_scaler", ".pkl">>,
        ticker \o <<"_scaler", ".save">>,
        <<"SCALER_">> \o ticker \o <<".pkl">>,
        <<"SCALER_">> \o ticker \o <<".save">>,
        <<"scaler_">> \o ticker \o <<".pkl">>,
        <<"scaler_">> \o ticker \o <<".save">>,
        <<"lstm_">> \o ticker \o <<"_scaler", ".pkl">>,
        <<"lstm_">> \o ticker \o <<"_scaler", ".save">>,
        <<"LSTM_">> \o ticker \o <<"_SCALER", ".pkl">>,
        <<"LSTM_">> \o ticker \o <<"_SCALER", ".save">>,
        tl \o <<"_scaler", ".pkl">>,
        tl \o <<"_scaler", ".save">>,
        <<"scaler_">> \o tl \o <<".pkl">>,
        <<"scaler_">> \o tl \o <<".save">>,
        <<"lstm_">> \o tl \o <<"_scaler", ".pkl">>,
        <<"lstm_">> \o tl \o <<"_scaler", ".save">> >>

\* Faulty variant of _find_scaler_path: the first candidate, whether it
\* exists or not.
_find_scaler_path_Unchecked(fs, ticker) == Some(ScalerCandidates(ticker)[1])

\* The first candidate that exists, as Some(path), or None.
_find_scaler_path(fs, ticker) ==
  LET cands == ScalerCandidates(ticker)
      hits == {i \in 1..Len(cands) : Exists(fs, cands[i])}
  IN IF hits = {} THEN None
     ELSE Some(cands[CHOOSE i \in hits : \A j \in hits : i <= j])

\* glob("*.keras") + glob("*.h5")
ModelFiles(fs) == {p \in DOMAIN fs : Ext(p) \in {".keras", ".h5"}}

\* The model files whose entry the scan may leave under `ticker`: every
\* model file of the ticker with a scaler overwrites models[ticker] in
\* listing order, the "*.h5" files after the "*.keras" ones.
EntryFiles(fs, ticker) ==
  LET mine == {p \in ModelFiles(fs) :
                 /\ _normalise_ticker_from_stem(Stem(p)) = ticker
                 /\ ticker # <<>>
                 /\ ~IsNone(_find_scaler_path(fs, ticker))}
      h5 == {p \in mine : Ext(p) = ".h5"}
  IN IF h5 # {} THEN h5 ELSE mine

CatalogTickers(fs) ==
  {t \in {_normalise_ticker_from_stem(Stem(p)) : p \in ModelFiles(fs)} :
     EntryFiles(fs, t) # {}}

\* The dictionaries a scan of the storage root can return: ticker ->
\* [model, scaler]. The directory listing order decides between several
\* model files of one ticker.
list_available_models(fs) ==
  {cat \in [CatalogTickers(fs) -> [model : ModelFiles(fs), scaler : DOMAIN fs]] :
     \A t \in DOMAIN cat :
       /\ cat[t].model \in EntryFiles(fs, t)
       /\ cat[t].scaler = Get(_find_scaler_path(fs, t))}

\* Some(<<model, scaler>>), or None where the code raises FileNotFoundError.
load_lstm_artifacts(ticker, model_catalog) ==
  LET tc == CleanTicker(ticker)
  IN IF tc \in DOMAIN model_catalog
       THEN Some(<<model_catalog[tc].model, model_catalog[tc].scaler>>)
       ELSE None

\* --------------------------------------------------------------- tiers

\* What a call hands back: a DataFrame tagged with the function that
\* computed it, or the exception it raised (its str()).
Returned(df) == [ok |-> TRUE, df |-> df]
Raised(exc) == [ok |-> FALSE, exc |-> exc]

\* str() of the exceptions the libraries raise while fitting, predicting,
\* loading or writing; MemoryError() and the like have an empty str().
FitErrors == {<<"fit failed">>, <<>>}
LoadErrors == {<<"load failed">>}
WriteErrors == {<<"write failed">>}

\* forecast_linear on a frame of data_len rows (load_data has dropped the
\* rows without a Close).
forecast_linear(data_len) ==
  IF data_len = 0
    THEN Raised(<<"No data available for forecasting">>)
    ELSE Returned([by |-> "forecast_linear"])

\* forecast_lstm_inference: the outcomes the call can have on this storage.
forecast_lstm_inference(fs, data_len, model_path, scaler_path, window) ==
  IF ~Exists(fs, model_path)
    THEN {Raised(<<"Model file not found:", " ">> \o model_path)}
  ELSE IF ~Exists(fs, scaler_path)
    THEN {Raised(<<"Scaler file not found:", " ">> \o scaler_path)}
  ELSE IF data_len < window
    THEN {Raised(<<"Not enough data points for the selected LSTM window size.">>)}
  ELSE {Returned([by |-> "forecast_lstm_inference",
                  model |-> fs[model_path], scaler |-> fs[scaler_path]])}
       \cup {Raised(e) : e \in LoadErrors}

\* forecast_lstm_autotrain up to the predictions (before anything is
\* written): the outcomes of scaling, windowing, fitting and predicting.
TrainAndPredict(data_len, window) ==
  IF data_len <= window
    THEN {Raised(<<"Not enough data points to train an LSTM model for the requested window size.">>)}
    ELSE {Returned([by |-> "forecast_lstm_autotrain"])}
         \cup {Raised(e) : e \in FitErrors}

\* ------------------------------------------------------------- state

VARIABLES
  files,    \* the storage root: file name -> the training run that wrote it
  pc,       \* where each request stands in get_forecast
  req,      \* get_forecast's arguments and locals, per request
  calls,    \* the tier calls each request has made, with their outcomes
  pretrain, \* where pretrain_models.py stands in its call of the trainer
  calc      \* one call of a catalog or forecasting function: arguments, result

vars == <<files, pc, req, calls, pretrain, calc>>

\* The tickers clients ask for, as typed.
RawTickers == {<<"a", " ">>, <<"B", "-", "B">>}

\* The ticker pretrain_models.py trains (one of POPULAR_TICKERS). A
\* request's training run bears the request's number, the script's run a
\* number no request bears.
PopularTicker == <<"A">>
PretrainRun == NumReq + 1

NoFrame ==
  [ticker_clean |-> <<>>, use_lstm |-> FALSE, data_len |-> 0,
   model_catalog |-> <<>>, forecast_df |-> None, source |-> "linear",
   note |-> None, train_error |-> None]

\* No function call under study.
NoCalc == [fn |-> "none"]

Init ==
  /\ files = <<>>
  /\ pc = [r \in Reqs |-> "idle"]
  /\ req = [r \in Reqs |-> NoFrame]
  /\ calls = [r \in Reqs |-> <<>>]
  /\ pretrain = "idle"
  /\ calc = NoCalc

Truthy(o) == ~IsNone(o) /\ Get(o) # <<>>
OrEmpty(o) == IF Truthy(o) THEN Get(o) ELSE <<>>

\* A tier call, as recorded: the function, "returned" or "raised", and the
\* str() of what it raised.
Called(r, fn, res) ==
  [calls EXCEPT ![r] =
     Append(@, <<fn, IF res.ok THEN "returned" ELSE "raised",
                     IF res.ok THEN <<>> ELSE res.exc>>)]

\* --------------------------------------------------- get_forecast steps

\* The data is loaded, the catalog scanned and the locals initialised; an
\* empty frame ends the request with HTTP 404 before any tier is tried.
Request(r) ==
  /\ pc[r] = "idle"
  /\ \E ticker \in RawTickers, lstm \in BOOLEAN, len \in SeriesLengths :
       IF len = 0
         THEN /\ pc' = [pc EXCEPT ![r] = "http_error"]
              /\ UNCHANGED req
         ELSE \E cat \in list_available_models(files) :
                /\ req' = [req EXCEPT ![r] =
                     [ticker_clean |-> CleanTicker(ticker), use_lstm |-> lstm,
                      data_len |-> len, model_catalog |-> cat,
                      forecast_df |-> None, source |-> "linear",
                      note |-> None, train_error |-> None]]
                /\ pc' = [pc EXCEPT ![r] = IF lstm THEN "autotrain" ELSE "fallback"]
  /\ UNCHANGED <<files, calls, pretrain, calc>>

\* `except Exception as train_exc` of the training attempt: the reason is
\* kept, the catalog is scanned again and the note is set when the ticker
\* does not resolve.
TrainExcept(r, exc) ==
  \E cat \in list_available_models(files) :
    LET resolves == req[r].ticker_clean \in DOMAIN cat
    IN /\ req' = [req EXCEPT ![r] =
            [@ EXCEPT !.train_error = Some(exc),
                      !.model_catalog = cat,
                      !.note = IF resolves THEN @
                               ELSE Some(<<"LSTM training unavailable:", " ">> \o exc)]]
       /\ pc' = [pc EXCEPT ![r] = IF resolves THEN "cached" ELSE "fallback"]
       /\ calls' = Called(r, "forecast_lstm_autotrain", Raised(exc))
       /\ UNCHANGED files

\* forecast_lstm_autotrain from its first line to the predictions.
Autotrain(r) ==
  /\ pc[r] = "autotrain"
  /\ \E res \in TrainAndPredict(req[r].data_len, Window) :
       IF res.ok
         THEN /\ pc' = [pc EXCEPT ![r] = "save_model"]
              /\ UNCHANGED <<files, req, calls>>
         ELSE TrainExcept(r, res.exc)
  /\ UNCHANGED <<pretrain, calc>>

\* model.save(model_path, include_optimizer=False)
SaveModel(r) ==
  /\ pc[r] = "save_model"
  /\ \/ /\ files' = WriteFile(files, ModelPath(req[r].ticker_clean), r)
        /\ pc' = [pc EXCEPT ![r] = "save_scaler"]
        /\ UNCHANGED <<req, calls>>
     \/ \E e \in WriteErrors : TrainExcept(r, e)
  /\ UNCHANGED <<pretrain, calc>>

\* Faulty variant of TrainReturn: the forecast is kept and `source = "lstm"` is
\* forgotten.
TrainReturn_SourceForgotten(r, df) ==
  /\ req' = [req EXCEPT ![r] = [@ EXCEPT !.forecast_df = Some(df)]]
  /\ pc' = [pc EXCEPT ![r] = "fallback"]
  /\ calls' = Called(r, "forecast_lstm_autotrain", Returned(df))

\* The trainer's return into get_forecast's try block.
TrainReturn(r, df) ==
  /\ req' = [req EXCEPT ![r] = [@ EXCEPT !.forecast_df = Some(df), !.source = "lstm"]]
  /\ pc' = [pc EXCEPT ![r] = "fallback"]
  /\ calls' = Called(r, "forecast_lstm_autotrain", Returned(df))

\* joblib.dump(scaler, scaler_path), then the trainer returns its forecast.
SaveScaler(r) ==
  /\ pc[r] = "save_scaler"
  /\ \/ /\ files' = WriteFile(files, ScalerPath(req[r].ticker_clean), r)
        /\ TrainReturn(r, [by |-> "forecast_lstm_autotrain"])
     \/ \E e \in WriteErrors : TrainExcept(r, e)
  /\ UNCHANGED <<pretrain, calc>>

\* Faulty variant of Cached: the inference call stands outside any try block, so
\* what it raises ends the request.
Cached_Uncaught(r) ==
  /\ pc[r] = "cached"
  /\ LET paths == Get(load_lstm_artifacts(req[r].ticker_clean, req[r].model_catalog))
         train_error == Get(req[r].train_error)
     IN \E res \in forecast_lstm_inference(files, req[r].data_len,
                                           paths[1], paths[2], Window) :
          /\ req' = [req EXCEPT ![r] =
               IF res.ok
                 THEN [@ EXCEPT !.forecast_df = Some(res.df),
                                !.source = "lstm",
                                !.note = Some(<<"Used cached LSTM due to training fallback:", " ">>
                                              \o train_error)]
                 ELSE @]
          /\ calls' = Called(r, "forecast_lstm_inference", res)
          /\ pc' = [pc EXCEPT ![r] = IF res.ok THEN "fallback" ELSE "http_error"]
  /\ UNCHANGED <<files, pretrain, calc>>

\* The cached attempt inside the except block (the ticker resolved in the
\* re-scanned catalog).
Cached(r) ==
  /\ pc[r] = "cached"
  /\ LET paths == Get(load_lstm_artifacts(req[r].ticker_clean, req[r].model_catalog))
         train_error == Get(req[r].train_error)
     IN \E res \in forecast_lstm_inference(files, req[r].data_len,
                                           paths[1], paths[2], Window) :
          /\ req' = [req EXCEPT ![r] =
               IF res.ok
                 THEN [@ EXCEPT !.forecast_df = Some(res.df),
                                !.source = "lstm",
                                !.note = Some(<<"Used cached LSTM due to training fallback:", " ">>
                                              \o train_error)]
                 ELSE [@ EXCEPT !.train_error =
                         Some(train_error \o <<";", " ", "cached model failed:", " ">> \o res.exc)]]
          /\ calls' = Called(r, "forecast_lstm_inference", res)
  /\ pc' = [pc EXCEPT ![r] = "fallback"]
  /\ UNCHANGED <<files, pretrain, calc>>

\* The last block: forecast_linear, its source tag and its note; an
\* exception of forecast_linear is not caught.
Linear(r, train_error, cs) ==
  LET res == forecast_linear(req[r].data_len)
  IN IF res.ok
       THEN /\ req' = [req EXCEPT ![r] =
                 [@ EXCEPT !.forecast_df = Some(res.df),
                           !.source = "linear",
                           !.train_error = train_error,
                           !.note = IF Truthy(train_error)
                                      THEN Some(<<"Fell back to linear forecast because LSTM failed:", " ">>
                                                \o Get(train_error))
                                      ELSE @]]
            /\ pc' = [pc EXCEPT ![r] = "done"]
            /\ calls' = [cs EXCEPT ![r] = Append(@, <<"forecast_linear", "returned", <<>>>>)]
       ELSE /\ req' = [req EXCEPT ![r] = [@ EXCEPT !.train_error = train_error]]
            /\ pc' = [pc EXCEPT ![r] = "http_error"]
            /\ calls' = [cs EXCEPT ![r] = Append(@, <<"forecast_linear", "raised", res.exc>>)]

\* Faulty variant of NoForecastYet: the guard is dropped.
NoForecastYet_Always(r) == TRUE

\* `if forecast_df is None:`
NoForecastYet(r) == IsNone(req[r].forecast_df)

\* Faulty variant of RetryCached: the use_lstm flag is not consulted.
RetryCached_IgnoresFlag(r) ==
  req[r].ticker_clean \in DOMAIN req[r].model_catalog

\* `if use_lstm and ticker_clean in model_catalog:`
RetryCached(r) ==
  /\ req[r].use_lstm
  /\ req[r].ticker_clean \in DOMAIN req[r].model_catalog

\* `if forecast_df is None:` and what follows it, to the response.
Fallback(r) ==
  /\ pc[r] = "fallback"
  /\ IF ~NoForecastYet(r)
       THEN /\ pc' = [pc EXCEPT ![r] = "done"]
            /\ UNCHANGED <<req, calls>>
     ELSE IF RetryCached(r)
       THEN LET paths == Get(load_lstm_artifacts(req[r].ticker_clean, req[r].model_catalog))
            IN \E res \in forecast_lstm_inference(files, req[r].data_len,
                                                  paths[1], paths[2], Window) :
                 IF res.ok
                   THEN /\ req' = [req EXCEPT ![r] =
                             [@ EXCEPT !.forecast_df = Some(res.df), !.source = "lstm"]]
                        /\ pc' = [pc EXCEPT ![r] = "done"]
                        /\ calls' = Called(r, "forecast_lstm_inference", res)
                   ELSE Linear(r,
                          Some(Strip(OrEmpty(req[r].train_error)
                                     \o <<";", " ", "cached model failed:", " ">> \o res.exc,
                                     {";", " "})),
                          Called(r, "forecast_lstm_inference", res))
     ELSE Linear(r, req[r].train_error, calls)
  /\ UNCHANGED <<files, pretrain, calc>>

\* ------------------------------------------------- pretrain_models.py

\* pretrain_ticker: the data is loaded and forecast_lstm_autotrain is
\* called with persist=True; whatever it raises is caught and printed.
PretrainFit ==
  /\ pretrain = "idle"
  /\ \E len \in SeriesLengths :
       IF len = 0
         THEN pretrain' = "failed"
         ELSE \E res \in TrainAndPredict(len, Window) :
                pretrain' = IF res.ok THEN "save_model" ELSE "failed"
  /\ UNCHANGED <<files, pc, req, calls, calc>>

PretrainSaveModel ==
  /\ pretrain = "save_model"
  /\ \/ /\ files' = WriteFile(files, ModelPath(CleanTicker(PopularTicker)), PretrainRun)
        /\ pretrain' = "save_scaler"
     \/ /\ pretrain' = "write_failed"
        /\ UNCHANGED files
  /\ UNCHANGED <<pc, req, calls, calc>>

PretrainSaveScaler ==
  /\ pretrain = "save_scaler"
  /\ \/ /\ files' = WriteFile(files, ScalerPath(CleanTicker(PopularTicker)), PretrainRun)
        /\ pretrain' = "trained"
     \/ /\ pretrain' = "write_failed"
        /\ UNCHANGED files
  /\ UNCHANGED <<pc, req, calls, calc>>

Next ==
  \/ \E r \in Reqs :
       \/ Request(r)
       \/ Autotrain(r)
       \/ SaveModel(r)
       \/ SaveScaler(r)
       \/ Cached(r)
       \/ Fallback(r)
  \/ PretrainFit
  \/ PretrainSaveModel
  \/ PretrainSaveScaler

Spec == Init /\ [][Next]_vars

\* ------------------------------------------- calls on a storage root

\* File names a storage root may hold: the trainer's pair for A, legacy
\* scalers and a legacy model of A, the trainer's pair for B-B and the
\* scaler the scan looks for instead, a model of B without any scaler, a
\* model file whose stem holds no ticker, and a file of another kind.
StorageNames ==
  { <<"lstm_", "A", ".keras">>, <<"scaler_", "A", ".save">>,
    <<"A", "_SCALER", ".pkl">>, <<"lstm_", "a", "_scaler", ".save">>,
    <<"A", ".h5">>,
    <<"lstm_", "B", "-", "B", ".keras">>, <<"scaler_", "B", "-", "B", ".save">>,
    <<"scaler_", "B", "B", ".save">>,
    <<"model_", "B", ".keras">>,
    <<"lstm_", ".keras">>,
    <<"notes", ".txt">> }

\* Any storage root over these names, written by earlier runs; no request
\* and no script is running.
InitStorage ==
  /\ files \in {[p \in S |-> 0] : S \in SUBSET StorageNames}
  /\ pc = [r \in Reqs |-> "idle"]
  /\ req = [r \in Reqs |-> NoFrame]
  /\ calls = [r \in Reqs |-> <<>>]
  /\ pretrain = "idle"
  /\ calc = NoCalc

\* One scan of the storage root.
ScanCatalog ==
  /\ calc = NoCalc
  /\ \E cat \in list_available_models(files) :
       calc' = [fn |-> "list_available_models", result |-> cat]
  /\ UNCHANGED <<files, pc, req, calls, pretrain>>

NextStorage == ScanCatalog

SpecStorage == InitStorage /\ [][NextStorage]_vars

\* ------------------------------------------------------------ numbers

\* A float is modelled as the exact fraction <<num, den>> in lowest terms
\* with den > 0: the arithmetic below is the arithmetic of the code without
\* its rounding (float64, and float32 where the code casts to it).
RECURSIVE GCD(_, _)
GCD(a, b) == IF b = 0 THEN a ELSE GCD(b, a % b)

Abs(x) == IF x < 0 THEN 0 - x ELSE x

Float(num, den) ==
  LET n == IF den < 0 THEN 0 - num ELSE num
      d == Abs(den)
      g == GCD(Abs(n), d)
  IN <<n \div g, d \div g>>

Plus(x, y) == Float(x[1] * y[2] + y[1] * x[2], x[2] * y[2])
Minus(x, y) == Float(x[1] * y[2] - y[1] * x[2], x[2] * y[2])
Times(x, y) == Float(x[1] * y[1], x[2] * y[2])
Over(x, y) == Float(x[1] * y[2], x[2] * y[1])
LessEq(x, y) == x[1] * y[2] <= y[1] * x[2]

\* np.clip(x, lo, hi)
Clip(x, lo, hi) == IF LessEq(x, lo) THEN lo ELSE IF LessEq(hi, x) THEN hi ELSE x

RECURSIVE Sum(_)
Sum(seq) == IF seq = <<>> THEN 0 ELSE Head(seq) + Sum(Tail(seq))

\* ------------------------------------------------------ historical data

\* The frame load_data returns: rows sorted by Date, every row with a
\* Close (a missing Close would be None). Dates are day numbers; trading
\* days leave gaps between them.
Frame(closes) ==
  [i \in 1..Len(closes) |-> [Date |-> 2 * i, Close |-> Some(closes[i])]]

\* data.dropna(subset=["Close"]): the rows that have a Close.
DropNa(data) ==
  LET F[i \in 0..Len(data)] ==
        IF i = 0 THEN <<>>
        ELSE IF IsNone(data[i].Close) THEN F[i - 1] ELSE Append(F[i - 1], data[i])
  IN F[Len(data)]

\* ["Close"].astype(float).values
CloseValues(rows) == [i \in 1..Len(rows) |-> Float(Get(rows[i].Close), 1)]

\* Faulty variant of date_range: one entry every other day.
date_range_Gaps(start, periods) == [k \in 1..periods |-> start + 2 * (k - 1)]

\* pd.date_range(start, periods=periods, freq="D")
date_range(start, periods) == [k \in 1..periods |-> start + (k - 1)]

\* --------------------------------------------------------- linear tier

\* np.polyfit(x, y, 1) for integer abscissas x: the least-squares line.
polyfit(x, y) ==
  LET n == Len(x)
      xf == [i \in 1..n |-> Float(x[i], 1)]
      SumF[i \in 0..n, which \in {"y", "xy"}] ==
        IF i = 0 THEN Float(0, 1)
        ELSE Plus(SumF[i - 1, which],
                  IF which = "y" THEN y[i] ELSE Times(xf[i], y[i]))
      Sx == Float(Sum(x), 1)
      Sxx == Float(Sum([i \in 1..n |-> x[i] * x[i]]), 1)
      Sy == SumF[n, "y"]
      Sxy == SumF[n, "xy"]
      N == Float(n, 1)
      slope == Over(Minus(Times(N, Sxy), Times(Sx, Sy)),
                    Minus(Times(N, Sxx), Times(Sx, Sx)))
  IN [slope |-> slope, intercept |-> Over(Minus(Sy, Times(slope, Sx)), N)]

\* Faulty variant of FlatLine: a line through the point that rises.
FlatLine_Rising(closes_values) ==
  [slope |-> Float(1, 1), intercept |-> closes_values[1]]

\* The line of a single point: slope = 0.0, intercept = closes_values[0].
FlatLine(closes_values) ==
  [slope |-> Float(0, 1), intercept |-> closes_values[1]]

\* Faulty variant of FutureIndex: the abscissas start over at 0.
FutureIndex_FromZero(n, days) == [k \in 1..days |-> k - 1]

\* np.arange(n, n + days)
FutureIndex(n, days) == [k \in 1..days |-> n + (k - 1)]

\* forecast_linear(data, days): the frame of dates and values, with the
\* fitted line kept beside it.
forecast_linear_frame(data, days) ==
  IF data = <<>>
    THEN Raised(<<"No data available for forecasting">>)
    ELSE
      LET closes == DropNa(data)
          closes_values == CloseValues(closes)
          n == Len(closes_values)
          line == IF n = 1
                    THEN FlatLine(closes_values)
                    ELSE polyfit([i \in 1..n |-> i - 1], closes_values)
          future_index == FutureIndex(n, days)
          forecast_values ==
            [k \in 1..days |->
               Plus(Times(line.slope, Float(future_index[k], 1)), line.intercept)]
          last_date == closes[n].Date
      IN Returned([by |-> "forecast_linear",
                   Date |-> date_range(last_date + 1, days),
                   Forecast |-> forecast_values,
                   line |-> line])

\* -------------------------------------------------------- MinMaxScaler

\* sklearn's _handle_zeros_in_scale: a zero range scales by 1.
HandleZeros(data_range) ==
  IF data_range = Float(0, 1) THEN Float(1, 1) ELSE data_range

\* MinMaxScaler(feature_range=(0.0, 1.0)).fit(values), values not empty.
fit(values) ==
  LET lo == values[CHOOSE i \in DOMAIN values :
                     \A j \in DOMAIN values : LessEq(values[i], values[j])]
      hi == values[CHOOSE i \in DOMAIN values :
                     \A j \in DOMAIN values : LessEq(values[j], values[i])]
      scale == Over(Float(1, 1), HandleZeros(Minus(hi, lo)))
  IN [data_min_ |-> lo, data_max_ |-> hi, scale_ |-> scale,
      min_ |-> Minus(Float(0, 1), Times(lo, scale))]

\* scaler.transform(X): X * scale_ + min_
transform(scaler, X) ==
  [i \in 1..Len(X) |-> Plus(Times(X[i], scaler.scale_), scaler.min_)]

\* Faulty variant of inverse_transform: the offset is not taken back.
inverse_transform_NoOffset(scaler, X) ==
  [i \in 1..Len(X) |-> Over(X[i], scaler.scale_)]

\* scaler.inverse_transform(X): (X - min_) / scale_
inverse_transform(scaler, X) ==
  [i \in 1..Len(X) |-> Over(Minus(X[i], scaler.min_), scaler.scale_)]

\* ------------------------------------------------------ sequence tiers

\* What a fitted or loaded network may compute from a window of scaled
\* values: a fixed level, or the last value of the window moved by a step.
\* Levels and steps reach below 0 and above 1.
Shifts == {Float(0 - 1, 2), Float(1, 2), Float(3, 2)}
Models == [base : {"zero", "last"}, shift : Shifts]

\* model.predict(window_slice)[0][0]
Predict(model, window_slice) ==
  Plus(IF model.base = "last" THEN window_slice[Len(window_slice)] ELSE Float(0, 1),
       model.shift)

\* history_scaled[-window:]
LastWindow(history_scaled, window) ==
  SubSeq(history_scaled, Len(history_scaled) - window + 1, Len(history_scaled))

\* The pairs `for idx in range(window, len(closes_scaled))` collects:
\* sequences[k] = closes_scaled[idx - window : idx] and targets[k] =
\* closes_scaled[idx], indices counted from 0 as the code does.
TrainingPairs(closes_scaled, window) ==
  LET n == Len(closes_scaled)
      at(i) == closes_scaled[i + 1]
      slice(a, b) == [j \in 1..(b - a) |-> at(a + j - 1)]
  IN [k \in 1..(IF n > window THEN n - window ELSE 0) |->
        LET idx == window + (k - 1)
        IN [sequence |-> slice(idx - window, idx), target |-> at(idx)]]

\* The prediction loop of forecast_lstm_autotrain: preds_scaled.
RECURSIVE AutotrainLoop(_, _, _, _)
AutotrainLoop(model, history_scaled, window, days) ==
  IF days = 0 THEN <<>>
  ELSE LET predicted == Predict(model, LastWindow(history_scaled, window))
           next_scaled == Clip(predicted, Float(0, 1), Float(1, 1))
       IN <<next_scaled>>
            \o AutotrainLoop(model, Append(history_scaled, next_scaled),
                             window, days - 1)

\* The prediction loop of forecast_lstm_inference: preds_scaled.
RECURSIVE InferenceLoop(_, _, _, _)
InferenceLoop(model, history_scaled, window, days) ==
  IF days = 0 THEN <<>>
  ELSE LET next_scaled == Predict(model, LastWindow(history_scaled, window))
       IN <<next_scaled>>
            \o InferenceLoop(model, Append(history_scaled, next_scaled),
                             window, days - 1)

\* Faulty variant of TooShortForInference: the trainer's comparison.
TooShortForInference_AsTrainer(n, window) == n <= window

\* len(closes) < window, len(closes) <= window
TooShortForInference(n, window) == n < window
TooShortForTraining(n, window) == n <= window

\* forecast_lstm_autotrain(data, days, window) when model.fit leaves
\* `model`, up to the predictions: the frame of dates and values, with the
\* scaler, the training pairs and the scaled predictions kept beside it.
forecast_lstm_autotrain_frame(data, days, window, model) ==
  LET closes == CloseValues(DropNa(data))
  IN IF TooShortForTraining(Len(closes), window)
       THEN Raised(<<"Not enough data points to train an LSTM model for the requested window size.">>)
     ELSE
       LET scaler == fit(closes)
           closes_scaled == transform(scaler, closes)
           pairs == TrainingPairs(closes_scaled, window)
           preds_scaled == AutotrainLoop(model, closes_scaled, window, days)
           preds == inverse_transform(scaler, preds_scaled)
           last_date == data[Len(data)].Date
       IN IF pairs = <<>>
            THEN Raised(<<"Unable to create training sequences for LSTM model.">>)
            ELSE Returned([by |-> "forecast_lstm_autotrain",
                           Date |-> date_range(last_date + 1, days),
                           Forecast |-> preds,
                           scaler |-> scaler, pairs |-> pairs,
                           preds_scaled |-> preds_scaled, model |-> model])

\* forecast_lstm_inference(data, model_path, scaler_path, days, window)
\* when the two files, if present, load as `model` and `scaler`.
forecast_lstm_inference_frame(fs, data, model_path, scaler_path, days, window, scaler, model) ==
  LET closes == CloseValues(DropNa(data))
  IN IF ~Exists(fs, model_path)
       THEN Raised(<<"Model file not found:", " ">> \o model_path)
     ELSE IF ~Exists(fs, scaler_path)
       THEN Raised(<<"Scaler file not found:", " ">> \o scaler_path)
     ELSE IF TooShortForInference(Len(closes), window)
       THEN Raised(<<"Not enough data points for the selected LSTM window size.">>)
     ELSE
       LET closes_scaled == transform(scaler, closes)
           preds_scaled == InferenceLoop(model, closes_scaled, window, days)
           preds == inverse_transform(scaler, preds_scaled)
           last_date == data[Len(data)].Date
       IN Returned([by |-> "forecast_lstm_inference",
                    Date |-> date_range(last_date + 1, days),
                    Forecast |-> preds,
                    scaler |-> scaler, preds_scaled |-> preds_scaled,
                    model |-> model])

\* train_lstm.py, train(): what it does with the downloaded closes before
\* it builds and fits the network. It compares nothing with the window:
\* with no pair, X is an array of shape (0,) and X.shape[1] fails.
train_preprocess(closes, window) ==
  IF closes = <<>>
    THEN Raised(<<"No historical data available for training">>)
    ELSE
      LET scaler == fit(closes)
          closes_scaled == transform(scaler, closes)
          pairs == TrainingPairs(closes_scaled, window)
      IN IF pairs = <<>>
           THEN Raised(<<"tuple index out of range">>)
           ELSE Returned([by |-> "train", scaler |-> scaler, pairs |-> pairs])

\* ------------------------------------------- calls of the forecasters

\* Closing prices, and the series a call may be given.
Prices == {1, 2, 3}
Series == UNION {[1..n -> Prices] : n \in 0..MaxSeriesLen}

\* The scalers a scaler file may hold: fitted by an earlier run on a
\* constant series, or on one that rose from 1 to 3.
ScalersOnFile == {fit(CloseValues(Frame(cs))) : cs \in {<<1, 1>>, <<1, 3>>}}

\* The artifacts of ticker A may be on the storage root or not; one
\* forecasting function is about to be called on a frame and a horizon.
InitForecast ==
  /\ files \in {[p \in S |-> 0] :
                  S \in SUBSET {ModelPath(PopularTicker), ScalerPath(PopularTicker)}}
  /\ pc = [r \in Reqs |-> "idle"]
  /\ req = [r \in Reqs |-> NoFrame]
  /\ calls = [r \in Reqs |-> <<>>]
  /\ pretrain = "idle"
  /\ calc \in [fn : {"none"}, data : {Frame(cs) : cs \in Series}, days : 1..MaxDays]

Result(fn, res) ==
  [fn |-> fn, data |-> calc.data, days |-> calc.days, result |-> res]

CallLinear ==
  /\ calc.fn = "none"
  /\ calc' = Result("forecast_linear", forecast_linear_frame(calc.data, calc.days))
  /\ UNCHANGED <<files, pc, req, calls, pretrain>>

\* forecast_lstm_autotrain(data, days, window, ticker="A", persist=persist):
\* the fit leaves some model or raises; the files are written after the
\* predictions.
CallAutotrain ==
  /\ calc.fn = "none"
  /\ \E persist \in BOOLEAN, model \in Models :
       LET res == forecast_lstm_autotrain_frame(calc.data, calc.days, Window, model)
       IN \/ /\ calc' = Result("forecast_lstm_autotrain", res)
             /\ files' = IF res.ok /\ persist
                            THEN WriteFile(WriteFile(files, ModelPath(PopularTicker), PretrainRun),
                                           ScalerPath(PopularTicker), PretrainRun)
                            ELSE files
          \/ /\ res.ok
             /\ \E e \in FitErrors : calc' = Result("forecast_lstm_autotrain", Raised(e))
             /\ UNCHANGED files
  /\ UNCHANGED <<pc, req, calls, pretrain>>

\* forecast_lstm_inference on the artifacts of ticker A.
CallInference ==
  /\ calc.fn = "none"
  /\ \E model \in Models, scaler \in ScalersOnFile :
       LET res == forecast_lstm_inference_frame(
                    files, calc.data, ModelPath(PopularTicker),
                    ScalerPath(PopularTicker), calc.days, Window, scaler, model)
       IN \/ calc' = Result("forecast_lstm_inference", res)
          \/ /\ res.ok
             /\ \E e \in LoadErrors : calc' = Result("forecast_lstm_inference", Raised(e))
  /\ UNCHANGED <<files, pc, req, calls, pretrain>>

\* train_lstm.py: train("A", window=window) on the downloaded closes.
CallTrain ==
  /\ calc.fn = "none"
  /\ LET res == train_preprocess(CloseValues(calc.data), Window)
     IN \/ /\ calc' = Result("train", res)
           /\ files' = IF res.ok
                          THEN WriteFile(WriteFile(files, ModelPath(PopularTicker), PretrainRun),
                                         ScalerPath(PopularTicker), PretrainRun)
                          ELSE files
        \/ /\ res.ok
           /\ \E e \in FitErrors : calc' = Result("train", Raised(e))
           /\ UNCHANGED files
  /\ UNCHANGED <<pc, req, calls, pretrain>>

NextForecast == CallLinear \/ CallAutotrain \/ CallInference \/ CallTrain

SpecForecast == InitForecast /\ [][NextForecast]_vars

\* ------------------------------------------------ reading the call trace

Fn(c) == c[1]
Outcome(c) == c[2]
Exc(c) == c[3]

CallIdx(r) == 1..Len(calls[r])
CallsTo(r, fn) == {i \in CallIdx(r) : Fn(calls[r][i]) = fn}
RaisedBy(r, fn) == {i \in CallsTo(r, fn) : Outcome(calls[r][i]) = "raised"}
ReturnedBy(r, fn) == {i \in CallsTo(r, fn) : Outcome(calls[r][i]) = "returned"}

TrainingFailed(r) == RaisedBy(r, "forecast_lstm_autotrain") # {}
\* str() of the exception the trainer raised.
TrainingReason(r) ==
  Exc(calls[r][CHOOSE i \in RaisedBy(r, "forecast_lstm_autotrain") : TRUE])

Outcomes == {r \in Reqs : pc[r] = "done"}
ProducedBy(r) == Get(req[r].forecast_df).by
SequenceTiers == {"forecast_lstm_autotrain", "forecast_lstm_inference"}
HasNote(r) == Truthy(req[r].note)

\* ---------------------------------------------------------------- claims

\* C1: in every outcome the source tag names the tier whose return value
\* is the forecast: "linear" exactly when forecast_linear produced it,
\* "lstm" exactly when the trainer or the inference runner did, and the
\* producing tier is one whose call returned, never one that raised.
SourceNamesProducer ==
  \A r \in Outcomes :
    /\ ~IsNone(req[r].forecast_df)
    /\ req[r].source = "linear" <=> ProducedBy(r) = "forecast_linear"
    /\ req[r].source = "lstm" <=> ProducedBy(r) \in SequenceTiers
    /\ ReturnedBy(r, ProducedBy(r)) # {}
    /\ Outcome(calls[r][Len(calls[r])]) = "returned"
    /\ Fn(calls[r][Len(calls[r])]) = ProducedBy(r)

\* C1 witness: a request answered by the linear tier, tagged "linear",
\* after its training and its cached inference were attempted and raised.
SourceNamesProducerWitness ==
  \E r \in Outcomes :
    /\ TrainingFailed(r) /\ RaisedBy(r, "forecast_lstm_inference") # {}
    /\ ProducedBy(r) = "forecast_linear" /\ req[r].source = "linear"

\* C2 (as claimed): whenever training failed and the cached model produced
\* the forecast, the outcome is tagged "lstm" and carries a non-empty note
\* that records the training failure reason.
CachedOutcomeHasNote ==
  \A r \in Outcomes :
    (req[r].use_lstm /\ TrainingFailed(r) /\ ProducedBy(r) = "forecast_lstm_inference")
      => /\ req[r].source = "lstm"
         /\ HasNote(r)
         /\ Contains(Get(req[r].note), TrainingReason(r))

\* C3 (as claimed): whenever training failed and cached inference was
\* unavailable (the ticker is not in the re-scanned catalog) or failed, the
\* outcome is tagged "linear" and carries a non-empty note that contains
\* the training failure reason.
FailedCachedFallsBackToLinear ==
  \A r \in Outcomes :
    ( /\ req[r].use_lstm
      /\ TrainingFailed(r)
      /\ \/ req[r].ticker_clean \notin DOMAIN req[r].model_catalog
         \/ RaisedBy(r, "forecast_lstm_inference") # {} )
      => /\ req[r].source = "linear"
         /\ HasNote(r)
         /\ Contains(Get(req[r].note), TrainingReason(r))

\* C4: a request with use_lstm false never calls the trainer or the
\* inference runner, whatever the catalog holds for its ticker, and its
\* outcome is tagged "linear" with no note.
NoSequenceTierUnlessAsked ==
  \A r \in Reqs :
    (pc[r] \notin {"idle", "http_error"} /\ ~req[r].use_lstm)
      => /\ CallsTo(r, "forecast_lstm_autotrain") = {}
         /\ CallsTo(r, "forecast_lstm_inference") = {}
         /\ r \in Outcomes =>
              /\ req[r].source = "linear"
              /\ IsNone(req[r].note)
              /\ ProducedBy(r) = "forecast_linear"

\* C4 witness: an outcome of a request with use_lstm false whose ticker the
\* catalog resolves.
NoSequenceTierUnlessAskedWitness ==
  \E r \in Outcomes :
    /\ ~req[r].use_lstm
    /\ req[r].ticker_clean \in DOMAIN req[r].model_catalog
    /\ calls[r] = << <<"forecast_linear", "returned", <<>>>> >>

\* C5 (as claimed): within one request each tier is called at most once.
EachTierAtMostOnce ==
  \A r \in Reqs :
    \A fn \in {"forecast_lstm_autotrain", "forecast_lstm_inference", "forecast_linear"} :
      Cardinality(CallsTo(r, fn)) <= 1

TierRank(fn) ==
  CASE fn = "forecast_lstm_autotrain" -> 1
    [] fn = "forecast_lstm_inference" -> 2
    [] fn = "forecast_linear" -> 3

\* C6: the tiers are called in the order train, cached, linear; the
\* inference runner is called only after the trainer raised in the same
\* request and with the ticker in the re-scanned catalog; forecast_linear
\* is called only when use_lstm is false or every earlier call raised; and
\* no tier is called after one has returned.
TiersInOrderShortCircuit ==
  \A r \in Reqs : \A i \in CallIdx(r) :
    LET c == calls[r][i]
    IN /\ \A j \in CallIdx(r) : j < i => TierRank(Fn(calls[r][j])) <= TierRank(Fn(c))
       /\ Fn(c) = "forecast_lstm_autotrain" => req[r].use_lstm /\ i = 1
       /\ Fn(c) = "forecast_lstm_inference" =>
            /\ \E j \in RaisedBy(r, "forecast_lstm_autotrain") : j < i
            /\ req[r].ticker_clean \in DOMAIN req[r].model_catalog
       /\ Fn(c) = "forecast_linear" =>
            \/ ~req[r].use_lstm
            \/ /\ i > 1
               /\ \A j \in CallIdx(r) : j < i => Outcome(calls[r][j]) = "raised"
       /\ Outcome(c) = "returned" => i = Len(calls[r])

\* C6 witness: a request that went through every tier: the trainer raised,
\* the cached model raised, forecast_linear returned.
TiersInOrderShortCircuitWitness ==
  \E r \in Outcomes :
    /\ Len(calls[r]) >= 3
    /\ Fn(calls[r][1]) = "forecast_lstm_autotrain" /\ Outcome(calls[r][1]) = "raised"
    /\ Fn(calls[r][2]) = "forecast_lstm_inference" /\ Outcome(calls[r][2]) = "raised"
    /\ Fn(calls[r][Len(calls[r])]) = "forecast_linear"

\* The steps a request in flight can take.
Step(r) ==
  Autotrain(r) \/ SaveModel(r) \/ SaveScaler(r) \/ Cached(r) \/ Fallback(r)

\* C7: a request on a non-empty series never ends in an error, whatever
\* the trainer, the catalog lookup and the inference runner raise: it can
\* always go on until its outcome, which carries a forecast; only the
\* empty series is answered with an error.
NoTierFailureReachesCaller ==
  \A r \in Reqs :
    /\ pc[r] = "http_error" => req[r].data_len = 0 /\ calls[r] = <<>>
    /\ pc[r] \notin {"idle", "done", "http_error"} => ENABLED Step(r)
    /\ pc[r] = "done" => req[r].data_len > 0 /\ ~IsNone(req[r].forecast_df)

\* C7 witness: an outcome of a request whose trainer raised and whose
\* cached inference raised at both attempts.
NoTierFailureReachesCallerWitness ==
  \E r \in Outcomes :
    /\ TrainingFailed(r)
    /\ Cardinality(RaisedBy(r, "forecast_lstm_inference")) = 2
    /\ ~IsNone(req[r].forecast_df)
    /\ req[r].data_len > 0

\* C8 (as claimed): a failure while writing the model file or the scaler
\* file does not make the trainer fail: no call of the trainer raises a
\* write failure.
PersistFailureKeepsForecast ==
  \A r \in Reqs : \A i \in RaisedBy(r, "forecast_lstm_autotrain") :
    Exc(calls[r][i]) \notin WriteErrors

CleanTickers == {CleanTicker(t) : t \in RawTickers \cup {PopularTicker}}

\* Some trainer has written the model file of ticker t and not yet ended.
BetweenWrites(t) ==
  \/ \E r \in Reqs : pc[r] = "save_scaler" /\ req[r].ticker_clean = t
  \/ pretrain = "save_scaler" /\ CleanTicker(PopularTicker) = t

\* C9 (as claimed, in its weakest reading: the states in which no trainer
\* stands between its two writes): a ticker's model file is present if and
\* only if its scaler file is.
ModelAndScalerTogether ==
  \A t \in CleanTickers :
    ~BetweenWrites(t)
      => (Exists(files, ModelPath(t)) <=> Exists(files, ScalerPath(t)))

\* The training runs that wrote both files of ticker t and returned.
Persisted(t) ==
  {r \in Reqs : req[r].ticker_clean = t /\ ReturnedBy(r, "forecast_lstm_autotrain") # {}}
  \cup {run \in {PretrainRun} : pretrain = "trained" /\ CleanTicker(PopularTicker) = t}

\* Some trainer call ended in a write failure.
SomeWriteFailed ==
  \/ pretrain = "write_failed"
  \/ \E r \in Reqs : \E i \in RaisedBy(r, "forecast_lstm_autotrain") :
       Exc(calls[r][i]) \in WriteErrors

\* C10 (as claimed): once every request has finished, if two or more
\* trainers persisted the same ticker (each completing both writes, none
\* failing), the model file and the scaler file at the ticker's canonical
\* paths come from the same training run.
ConcurrentRunsLeaveOnePair ==
  ( /\ \A r \in Reqs : pc[r] \in {"done", "http_error"}
    /\ pretrain \in {"trained", "failed", "write_failed"} )
    => \A t \in CleanTickers :
         (Cardinality(Persisted(t)) >= 2 /\ ~SomeWriteFailed)
           => files[ModelPath(t)] = files[ScalerPath(t)]

\* ---------------------------------------------------------------- C11

\* The tickers the scan recovers from the model files of the storage root.
ModelTickers(fs) ==
  {_normalise_ticker_from_stem(Stem(p)) : p \in ModelFiles(fs)} \ {<<>>}

\* `ticker` has a scaler file under one of the recognised names.
HasScaler(fs, ticker) ==
  \E i \in DOMAIN ScalerCandidates(ticker) :
    ScalerCandidates(ticker)[i] \in DOMAIN fs

Scanned == calc.fn = "list_available_models"

\* C11: whatever the storage root holds, the scan returns (a missing scaler
\* is skipped, not an error), and what it returns has no entry for a ticker
\* with a model file and no scaler under any recognised name, and one entry
\* for a ticker with a model file and such a scaler; the entry names a
\* model file of that ticker and a scaler of that ticker, both present.
CatalogMatchesStorage ==
  /\ calc = NoCalc => list_available_models(files) # {}
  /\ Scanned =>
       /\ \A t \in ModelTickers(files) :
            t \in DOMAIN calc.result <=> HasScaler(files, t)
       /\ \A t \in DOMAIN calc.result :
            /\ t \in ModelTickers(files)
            /\ calc.result[t].model \in ModelFiles(files)
            /\ _normalise_ticker_from_stem(Stem(calc.result[t].model)) = t
            /\ calc.result[t].scaler \in DOMAIN files
            /\ \E i \in DOMAIN ScalerCandidates(t) :
                 calc.result[t].scaler = ScalerCandidates(t)[i]

\* A scan of a root with a model of B and no scaler of B, and a model of A
\* whose only scaler bears a legacy name: A is listed, B is not.
CatalogMatchesStorageWitness ==
  /\ Scanned
  /\ <<"model_", "B", ".keras">> \in DOMAIN files
  /\ <<"B">> \notin DOMAIN calc.result
  /\ <<"scaler_", "A", ".save">> \notin DOMAIN files
  /\ <<"A">> \in DOMAIN calc.result
  /\ calc.result[<<"A">>].scaler = <<"lstm_", "a", "_scaler", ".save">>

\* ---------------------------------------------------------------- C12

\* C12 (as claimed): once the trainer has returned to a request, having
\* written its model and its scaler, every scan of the storage root
\* followed by the lookup of the request's ticker resolves to the two
\* files the trainer wrote.
TrainedModelIsListed ==
  \A r \in Reqs :
    ReturnedBy(r, "forecast_lstm_autotrain") # {}
      => \A cat \in list_available_models(files) :
           load_lstm_artifacts(req[r].ticker_clean, cat)
             = Some(<<ModelPath(req[r].ticker_clean),
                      ScalerPath(req[r].ticker_clean)>>)

\* ------------------------------------------------- forecasting calls

Done(fn) == calc.fn = fn /\ calc.result.ok
Df == calc.result.df

\* The usable closes of the call's frame.
UsableCloses == CloseValues(DropNa(calc.data))

InUnitInterval(x) == LessEq(Float(0, 1), x) /\ LessEq(x, Float(1, 1))

\* C13 (as claimed): the scaled predictions of forecast_lstm_inference are
\* the ones the trainer's loop computes from the same model, scaler,
\* series, window and horizon, every one of them clamped to [0,1].
InferenceLoopAsTrainer ==
  Done("forecast_lstm_inference") =>
    /\ Df.preds_scaled
         = AutotrainLoop(Df.model, transform(Df.scaler, UsableCloses),
                         Window, calc.days)
    /\ \A k \in DOMAIN Df.preds_scaled : InUnitInterval(Df.preds_scaled[k])

\* The messages of the errors raised for a series too short for the window
\* (the script's error for no data at all is counted with them).
InsufficientData ==
  { <<"Not enough data points to train an LSTM model for the requested window size.">>,
    <<"No historical data available for training">>,
    <<"Unable to create training sequences for LSTM model.">>,
    <<"Not enough data points for the selected LSTM window size.">> }

\* The call wrote no file: every file is as the earlier runs left it.
NothingWritten == \A p \in DOMAIN files : files[p] # PretrainRun

\* The training pairs are the n - w pairs of the claim: pair k maps the w
\* scaled closes from the k-th on to the scaled close after them.
PairsAsClaimed(pairs, scaler) ==
  LET scaled == transform(scaler, UsableCloses)
      n == Len(UsableCloses)
  IN /\ Len(pairs) = n - Window
     /\ n = Window + 1 => Len(pairs) = 1
     /\ \A k \in 1..Len(pairs) :
          /\ Len(pairs[k].sequence) = Window
          /\ \A j \in 1..Window : pairs[k].sequence[j] = scaled[k + j - 1]
          /\ pairs[k].target = scaled[k + Window]

\* The preprocessing of `fn` is as C14 says: with n <= w usable closes it
\* fails with the insufficient-data error and nothing has been fitted or
\* written; with more it does not fail so, and the pairs it builds are the
\* n - w pairs of the claim.
PreprocessingAsClaimed(fn) ==
  calc.fn = fn =>
    IF Len(UsableCloses) <= Window
      THEN /\ ~calc.result.ok
           /\ calc.result.exc \in InsufficientData
           /\ NothingWritten
      ELSE /\ ~calc.result.ok => calc.result.exc \notin InsufficientData
           /\ calc.result.ok => PairsAsClaimed(Df.pairs, Df.scaler)

AutotrainPreprocessing == PreprocessingAsClaimed("forecast_lstm_autotrain")

\* C14 (as claimed): the preprocessing of the trainer, in
\* forecast_lstm_autotrain and in train_lstm.py alike, fails with the
\* insufficient-data error when n <= w, before any training or write, and
\* otherwise builds exactly the n - w pairs, one pair for n = w + 1.
TrainerPreprocessing ==
  /\ AutotrainPreprocessing
  /\ PreprocessingAsClaimed("train")

\* The messages of FileNotFoundError for a missing model or scaler file.
ArtifactNotFound(exc) ==
  exc # <<>> /\ Head(exc) \in {"Model file not found:", "Scaler file not found:"}

ArtifactMissing ==
  \/ ModelPath(PopularTicker) \notin DOMAIN files
  \/ ScalerPath(PopularTicker) \notin DOMAIN files

\* C15: forecast_lstm_inference fails with the artifact-not-found error
\* whenever the model file or the scaler file is missing; with both
\* present it fails with the insufficient-data error exactly when the
\* series has fewer than w usable closes, and a series of exactly w closes,
\* which it accepts, is one the trainer rejects as insufficient.
InferencePreconditions ==
  calc.fn = "forecast_lstm_inference" =>
    /\ ArtifactMissing => ~calc.result.ok /\ ArtifactNotFound(calc.result.exc)
    /\ ~ArtifactMissing =>
         /\ (~calc.result.ok /\ calc.result.exc \in InsufficientData)
              <=> Len(UsableCloses) < Window
         /\ Len(UsableCloses) = Window =>
              \A model \in Models :
                LET trained == forecast_lstm_autotrain_frame(calc.data, calc.days,
                                                             Window, model)
                IN ~trained.ok /\ trained.exc \in InsufficientData

\* C15 witness: inference has returned a forecast for a series of exactly
\* w closes.
InferencePreconditionsWitness ==
  Done("forecast_lstm_inference") /\ Len(UsableCloses) = Window

\* C16: the forecast any tier returns for a non-empty series has exactly
\* `days` dates and `days` values; the first date is the day after the last
\* historical date and every other date is the day after the one before.
ForecastDates ==
  \A fn \in {"forecast_linear", "forecast_lstm_autotrain", "forecast_lstm_inference"} :
    Done(fn) =>
      /\ Len(Df.Date) = calc.days
      /\ Len(Df.Forecast) = calc.days
      /\ Df.Date[1] = calc.data[Len(calc.data)].Date + 1
      /\ \A k \in 1..(calc.days - 1) : Df.Date[k + 1] = Df.Date[k] + 1

\* C16 witness: a linear forecast over the longest horizon.
ForecastDatesWitness ==
  Done("forecast_linear") /\ calc.days = MaxDays /\ Len(Df.Date) = MaxDays

\* C17: for a series of one point of value v, forecast_linear fits slope 0
\* and intercept v, and each of the `days` values it returns is v.
SinglePointIsFlat ==
  (Done("forecast_linear") /\ Len(UsableCloses) = 1) =>
    /\ Df.line.slope = Float(0, 1)
    /\ Df.line.intercept = UsableCloses[1]
    /\ Len(Df.Forecast) = calc.days
    /\ \A k \in 1..calc.days : Df.Forecast[k] = UsableCloses[1]

\* C17 witness: the forecast from one point of value 2 over two days.
SinglePointIsFlatWitness ==
  /\ Done("forecast_linear")
  /\ UsableCloses = <<Float(2, 1)>>
  /\ Df.Forecast = <<Float(2, 1), Float(2, 1)>>

\* The closes rise by the same positive step from each row to the next.
LinearIncreasing(v) ==
  /\ Len(v) >= 2
  /\ ~LessEq(v[2], v[1])
  /\ \A i \in 1..(Len(v) - 1) : Minus(v[i + 1], v[i]) = Minus(v[2], v[1])

\* C18: for a perfectly linear increasing series of n points the values
\* forecast_linear returns are slope * (n + k) + intercept, k = 0..days-1,
\* for the fitted slope and intercept; the fitted line is the series' own
\* (its step, its first value), and the last value is not below the first.
LinearSeriesExtrapolated ==
  (Done("forecast_linear") /\ LinearIncreasing(UsableCloses)) =>
    LET n == Len(UsableCloses)
        value(k) == Plus(Times(Df.line.slope, Float(n + k, 1)), Df.line.intercept)
    IN /\ Df.line.slope = Minus(UsableCloses[2], UsableCloses[1])
       /\ Df.line.intercept = UsableCloses[1]
       /\ \A k \in 0..(calc.days - 1) : Df.Forecast[k + 1] = value(k)
       /\ LessEq(Df.Forecast[1], Df.Forecast[calc.days])

\* C18 witness: the series 1, 2, 3 continued by 4, 5.
LinearSeriesExtrapolatedWitness ==
  /\ Done("forecast_linear")
  /\ UsableCloses = <<Float(1, 1), Float(2, 1), Float(3, 1)>>
  /\ Df.Forecast = <<Float(4, 1), Float(5, 1)>>

\* A scaler has been fitted on the usable closes of the call's frame.
ScalerFitted == Done("forecast_lstm_autotrain") \/ Done("train")

\* The least and the greatest usable close of the call's frame.
MinClose ==
  CHOOSE x \in {UsableCloses[i] : i \in DOMAIN UsableCloses} :
    \A i \in DOMAIN UsableCloses : LessEq(x, UsableCloses[i])
MaxClose ==
  CHOOSE x \in {UsableCloses[i] : i \in DOMAIN UsableCloses} :
    \A i \in DOMAIN UsableCloses : LessEq(UsableCloses[i], x)

\* The values from lo to hi, in steps of a half.
Between(lo, hi) ==
  {Float(a, 2) : a \in (2 * lo[1]) \div lo[2] .. (2 * hi[1]) \div hi[2]}

\* C19: for the scaler fitted on a series and every value between the
\* least and the greatest close, the scaled value lies in [0,1] and
\* inverse-scaling it gives the value back; so too for a constant series.
ScalerRoundTrip ==
  ScalerFitted =>
    /\ Df.scaler.data_min_ = MinClose
    /\ Df.scaler.data_max_ = MaxClose
    /\ \A x \in Between(MinClose, MaxClose) \cup {MinClose, MaxClose} :
         LET scaled == transform(Df.scaler, <<x>>)
         IN /\ InUnitInterval(scaled[1])
            /\ inverse_transform(Df.scaler, scaled) = <<x>>

\* C19 witness: the trainer has fitted its scaler on a constant series.
ScalerRoundTripWitness ==
  /\ Done("forecast_lstm_autotrain")
  /\ MinClose = MaxClose
  /\ transform(Df.scaler, <<MinClose>>) = <<Float(0, 1)>>

\* C20 (as claimed): whenever forecast_lstm_autotrain returns, every scaled
\* prediction it recorded lies in [0,1] and every value of the forecast
\* lies between the least and the greatest close of the series.
ForecastWithinHistory ==
  Done("forecast_lstm_autotrain") =>
    /\ \A k \in DOMAIN Df.preds_scaled : InUnitInterval(Df.preds_scaled[k])
    /\ \A k \in DOMAIN Df.Forecast :
         LessEq(MinClose, Df.Forecast[k]) /\ LessEq(Df.Forecast[k], MaxClose)

====
